---- MODULE Spec2Model ----
(***************************************************************************)
(* Model of app/backend/app.py: a Flask application whose single view,     *)
(* home(), opens one MySQL connection per GET / and reports the outcome    *)
(* as text.  Strings are sequences of characters (one-character strings;   *)
(* a non-ASCII code point is written "U+XXXX"), so slicing and             *)
(* concatenation are computed, not assumed.                                *)
(***************************************************************************)
EXTENDS Integers, Sequences, FiniteSets, TLC

VARIABLES
    environ,    \* os.environ restricted to the key the program reads
    startEnv,   \* history: os.environ as it was when the module was imported
    RDS_HOST,   \* module global bound at import (line 8)
    mainPc,     \* "imported" before app.run, "serving" once it listens
    listen,     \* the address app.run bound
    pc,         \* per worker: position of its current request in home()
    locals,     \* per worker: local names of the running home() frame
    outcome,    \* history: what mysql.connector.connect did for this request
    netlog,     \* history: database-client calls made by this request
    response,   \* per worker: the HTTP response produced, until delivered
    served,     \* history: number of requests accepted so far
    staleProbe  \* history: a connect was made after os.environ had changed

vars == <<environ, startEnv, RDS_HOST, mainPc, listen, pc, locals, outcome,
          netlog, response, served, staleProbe>>

-----------------------------------------------------------------------------
(* Bounds of the model *)

NumWorkers == 2

MaxErrLen == 51

MaxServed == 3

Workers == 1..NumWorkers

-----------------------------------------------------------------------------
(* Module-level constants of app.py *)

DefaultHost == "your-db-endpoint.rds.amazonaws.com"

RDS_PORT == 3306

RDS_USER == "admin"

RDS_PASS == "MyDBPass123!"

RDS_DB == "testdb"

TruncLen == 50

\* os.environ.get(key, default): the value when the key is present (even an
\* empty one), the default otherwise.
EnvGet(env, key, default) ==
    IF key \in DOMAIN env THEN env[key] ELSE default

\* Values the environment may give RDS_HOST.
HostValues == {"db.internal", ""}

NoEnv == [k \in {} |-> ""]

EnvStates == {NoEnv} \cup {[k \in {"RDS_HOST"} |-> h] : h \in HostValues}

-----------------------------------------------------------------------------
(* Exceptions mysql.connector.connect raises, and their message texts *)

\* Connection failures are subclasses of mysql.connector.Error, itself a
\* subclass of Exception: network unreachable, bad credentials, timeout.
ErrorClasses == {"InterfaceError", "ProgrammingError", "OperationalError"}

ExceptionSubclasses == ErrorClasses \cup {"Exception"}

Alphabet == <<"a", "b", "c">>

\* A message of n characters whose content varies with the position.
ErrText(n) == [i \in 1..n |-> Alphabet[((i - 1) % 3) + 1]]

ErrLens == {0, TruncLen - 1, TruncLen, MaxErrLen}

Errors == [cls : ErrorClasses, text : {ErrText(n) : n \in ErrLens}]

OkOutcome == [tag |-> "ok"]

NoOutcome == [tag |-> "none"]

Outcomes == {OkOutcome} \cup {[tag |-> "raise", e |-> e] : e \in Errors}

-----------------------------------------------------------------------------
(* home() *)

Min(a, b) == IF a < b THEN a ELSE b

\* The keyword arguments of the connect call.
ConnectArgsLive ==
    [host |-> EnvGet(environ, "RDS_HOST", DefaultHost), user |-> RDS_USER,
     password |-> RDS_PASS, port |-> RDS_PORT]

ConnectArgs ==
    [host |-> RDS_HOST, user |-> RDS_USER, password |-> RDS_PASS,
     port |-> RDS_PORT]

\* s[:50]
SliceWhole(s) == s

Slice49(s) == SubSeq(s, 1, Min(Len(s), TruncLen - 1))

Truncate(s) == SubSeq(s, 1, Min(Len(s), TruncLen))

SuccessBodyPlain ==
    <<"C", "o", "n", "n", "e", "c", "t", "e", "d", " ", "t", "o", " ", "R",
      "D", "S", " ", "M", "y", "S", "Q", "L", " ", "i", "n", "s", "t", "a",
      "n", "c", "e">>

SuccessBody ==
    <<"U+2705", " ", "C", "o", "n", "n", "e", "c", "t", "e", "d", " ", "t",
      "o", " ", "R", "D", "S", " ", "M", "y", "S", "Q", "L", " ", "i", "n",
      "s", "t", "a", "n", "c", "e">>

FailurePrefix ==
    <<"U+26A0", "U+FE0F", " ", "B", "a", "c", "k", "e", "n", "d", " ", "i",
      "s", " ", "r", "u", "n", "n", "i", "n", "g", " ", "b", "u", "t", " ",
      "R", "D", "S", " ", "c", "o", "n", "n", "e", "c", "t", "i", "o", "n",
      " ", "f", "a", "i", "l", "e", "d", ":", " ">>

Ellipsis == <<".", ".", ".">>

\* str(e) of a mysql.connector error is its message text.
Str(e) == e.text

\* f"... failed: {str(e)[:50]}..."
FailureBodyEllipsisIfCut(e) ==
    FailurePrefix \o Truncate(Str(e))
        \o (IF Len(Str(e)) > TruncLen THEN Ellipsis ELSE <<>>)

FailureBody(e) == FailurePrefix \o Truncate(Str(e)) \o Ellipsis

\* except Exception as e: isinstance(e, Exception)
CaughtNetworkOnly(e) == e.cls = "InterfaceError"

Caught(e) == e.cls \in ExceptionSubclasses

\* Where control goes when connect raises e inside the try block.
ExceptTargetRetry(e) == IF Caught(e) THEN "L17" ELSE "propagate"

ExceptTarget(e) == IF Caught(e) THEN "L25" ELSE "propagate"

NoLocals == [tag |-> "empty"]

NoResponse == [status |-> 0, body |-> <<>>]

InternalServerError == <<"5", "0", "0">>

\* What the view function hands back to Flask from position p with locals l.
HomeResultShared(w, p, l) ==
    IF \E q \in Workers : q # w /\ response[q] # NoResponse
    THEN [tag |-> "return",
          value |-> response[CHOOSE q \in Workers :
                                 q # w /\ response[q] # NoResponse].body]
    ELSE IF p = "L23" THEN [tag |-> "return", value |-> SuccessBody]
    ELSE IF p = "L25" THEN [tag |-> "return", value |-> FailureBody(l.e)]
    ELSE [tag |-> "raise", e |-> l.e]

HomeResult(w, p, l) ==
    IF p = "L23" THEN [tag |-> "return", value |-> SuccessBody]
    ELSE IF p = "L25" THEN [tag |-> "return", value |-> FailureBody(l.e)]
    ELSE [tag |-> "raise", e |-> l.e]

\* Flask: a returned str becomes a 200 response; an exception leaving the
\* view becomes a 500 response and the server keeps running.
FlaskResponse(res) ==
    IF res.tag = "return" THEN [status |-> 200, body |-> res.value]
    ELSE [status |-> 500, body |-> InternalServerError]

-----------------------------------------------------------------------------
(* State machine *)

Init ==
    /\ environ \in EnvStates
    /\ startEnv = environ
    /\ RDS_HOST = EnvGet(environ, "RDS_HOST", DefaultHost)
    /\ mainPc = "imported"
    /\ listen = [host |-> "", port |-> 0]
    /\ pc = [w \in Workers |-> "idle"]
    /\ locals = [w \in Workers |-> NoLocals]
    /\ outcome = [w \in Workers |-> NoOutcome]
    /\ netlog = [w \in Workers |-> <<>>]
    /\ response = [w \in Workers |-> NoResponse]
    /\ served = 0
    /\ staleProbe = FALSE

\* app.run(host="0.0.0.0", port=80)
AppRun ==
    /\ mainPc = "imported"
    /\ mainPc' = "serving"
    /\ listen' = [host |-> "0.0.0.0", port |-> 80]
    /\ UNCHANGED <<environ, startEnv, RDS_HOST, pc, locals, outcome, netlog,
                   response, served,
                   staleProbe>>

\* The environment of the running process is changed (os.environ[...] = h).
SetEnv(h) ==
    /\ environ' = [k \in {"RDS_HOST"} |-> h]
    /\ environ' # environ
    /\ UNCHANGED <<startEnv, RDS_HOST, mainPc, listen, pc, locals, outcome,
                   netlog, response, served,
                   staleProbe>>

\* del os.environ["RDS_HOST"]
UnsetEnv ==
    /\ environ # NoEnv
    /\ environ' = NoEnv
    /\ UNCHANGED <<startEnv, RDS_HOST, mainPc, listen, pc, locals, outcome,
                   netlog, response, served,
                   staleProbe>>

\* GET / is routed to home() on worker w: a fresh frame enters the try block.
Request(w) ==
    /\ mainPc = "serving"
    /\ pc[w] = "idle"
    /\ served < MaxServed
    /\ served' = served + 1
    /\ pc' = [pc EXCEPT ![w] = "L17"]
    /\ locals' = [locals EXCEPT ![w] = NoLocals]
    /\ UNCHANGED <<environ, startEnv, RDS_HOST, mainPc, listen, outcome,
                   netlog, response,
                   staleProbe>>

\* conn = mysql.connector.connect(host=..., user=..., password=..., port=...)
\* either returns a connection or raises.
Connect(w) ==
    /\ pc[w] = "L17"
    /\ \E o \in Outcomes :
        /\ outcome' = [outcome EXCEPT ![w] = o]
        /\ netlog' = [netlog EXCEPT
                        ![w] = Append(@, [op |-> "connect", args |-> ConnectArgs])]
        /\ IF o.tag = "ok"
           THEN /\ locals' = [locals EXCEPT
                                ![w] = [tag |-> "conn", conn |-> ConnectArgs]]
                /\ pc' = [pc EXCEPT ![w] = "L23"]
           ELSE /\ locals' = [locals EXCEPT ![w] = [tag |-> "exc", e |-> o.e]]
                /\ pc' = [pc EXCEPT ![w] = ExceptTarget(o.e)]
    /\ staleProbe' = (staleProbe \/ environ # startEnv)
    /\ UNCHANGED <<environ, startEnv, RDS_HOST, mainPc, listen, response,
                   served>>

\* return "..." (line 23 or 25), or the exception leaves home(); the frame
\* and with it conn / e are dropped, and Flask builds the response.
Respond(w) ==
    /\ pc[w] \in {"L23", "L25", "propagate"}
    /\ response' = [response EXCEPT
                      ![w] = FlaskResponse(HomeResult(w, pc[w], locals[w]))]
    /\ locals' = [locals EXCEPT ![w] = NoLocals]
    /\ pc' = [pc EXCEPT ![w] = "responded"]
    /\ UNCHANGED <<environ, startEnv, RDS_HOST, mainPc, listen, outcome,
                   netlog, served,
                   staleProbe>>

\* The response is sent to the client; the worker is free for the next
\* request.
Deliver(w) ==
    /\ pc[w] = "responded"
    /\ pc' = [pc EXCEPT ![w] = "idle"]
    /\ response' = [response EXCEPT ![w] = NoResponse]
    /\ outcome' = [outcome EXCEPT ![w] = NoOutcome]
    /\ netlog' = [netlog EXCEPT ![w] = <<>>]
    /\ UNCHANGED <<environ, startEnv, RDS_HOST, mainPc, listen, locals,
                   served,
                   staleProbe>>

Next ==
    \/ AppRun
    \/ \E h \in HostValues : SetEnv(h)
    \/ UnsetEnv
    \/ \E w \in Workers : Request(w)
    \/ \E w \in Workers : Connect(w)
    \/ \E w \in Workers : Respond(w)
    \/ \E w \in Workers : Deliver(w)

Spec == Init /\ [][Next]_vars

-----------------------------------------------------------------------------
(* Properties.  The expected texts are written out here from the          *)
(* specification, independently of the definitions above.                 *)

ExpectedSuccess ==
    <<"U+2705", " ", "C", "o", "n", "n", "e", "c", "t", "e", "d", " ", "t",
      "o", " ", "R", "D", "S", " ", "M", "y", "S", "Q", "L", " ", "i", "n",
      "s", "t", "a", "n", "c", "e">>

ExpectedPrefix ==
    <<"U+26A0", "U+FE0F", " ", "B", "a", "c", "k", "e", "n", "d", " ", "i",
      "s", " ", "r", "u", "n", "n", "i", "n", "g", " ", "b", "u", "t", " ",
      "R", "D", "S", " ", "c", "o", "n", "n", "e", "c", "t", "i", "o", "n",
      " ", "f", "a", "i", "l", "e", "d", ":", " ">>

ThreeDots == <<".", ".", ".">>

Responded(w) == pc[w] = "responded"

Failed(w) == outcome[w].tag = "raise"

Succeeded(w) == outcome[w].tag = "ok"

ErrorTextOf(w) == outcome[w].e.text

\* The part of a failure body between the prefix and the last three
\* characters.
Detail(b) == SubSeq(b, Len(ExpectedPrefix) + 1, Len(b) - 3)

FirstChars(t, n) == SubSeq(t, 1, IF Len(t) < n THEN Len(t) ELSE n)

\* The response a request produces when it runs alone with outcome o.
AloneResponse(o) ==
    IF o.tag = "ok"
    THEN [status |-> 200, body |-> ExpectedSuccess]
    ELSE [status |-> 200,
          body |-> ExpectedPrefix \o FirstChars(o.e.text, 50) \o ThreeDots]

StartHost ==
    IF "RDS_HOST" \in DOMAIN startEnv
    THEN startEnv["RDS_HOST"]
    ELSE "your-db-endpoint.rds.amazonaws.com"

\* C1: a request whose connection attempt succeeded is answered with status
\* 200 and exactly the success message, nothing appended.
C1_SuccessResponse ==
    \A w \in Workers :
        (Responded(w) /\ Succeeded(w)) =>
            response[w] = [status |-> 200, body |-> ExpectedSuccess]

C1_Witness == \E w \in Workers : Responded(w) /\ Succeeded(w)

\* C2: a request whose connection attempt failed is answered with status 200
\* and a body made of the failure prefix, at most 50 leading characters of
\* the error text, and a trailing "...".
C2_FailureResponse ==
    \A w \in Workers :
        (Responded(w) /\ Failed(w)) =>
            /\ response[w].status = 200
            /\ \E k \in 0..50 :
                /\ k <= Len(ErrorTextOf(w))
                /\ response[w].body =
                     ExpectedPrefix \o SubSeq(ErrorTextOf(w), 1, k) \o ThreeDots

C2_Witness ==
    \E w \in Workers :
        /\ Responded(w) /\ Failed(w)
        /\ Len(ErrorTextOf(w)) > 50
        /\ response[w].status = 200

\* C3 as stated: the detail segment of every failure body is exactly 50
\* characters long and equals the first 50 characters of the error text.
C3_ExactlyFifty ==
    \A w \in Workers :
        (Responded(w) /\ Failed(w)) =>
            /\ Len(Detail(response[w].body)) = 50
            /\ Len(ErrorTextOf(w)) >= 50
            /\ Detail(response[w].body) = SubSeq(ErrorTextOf(w), 1, 50)

\* C3 amended: the detail segment of every failure body has min(50, n)
\* characters, n the length of the error text, and equals the first
\* min(50, n) characters of the error text; it is never longer than 50.
C3_TruncatedAtFifty ==
    \A w \in Workers :
        (Responded(w) /\ Failed(w)) =>
            LET d == Detail(response[w].body)
                n == Len(ErrorTextOf(w))
            IN  /\ Len(d) = (IF n < 50 THEN n ELSE 50)
                /\ d = FirstChars(ErrorTextOf(w), 50)

C3_Witness ==
    \E w \in Workers :
        /\ Responded(w) /\ Failed(w)
        /\ Len(ErrorTextOf(w)) > 50
        /\ Len(Detail(response[w].body)) = 50
        /\ Detail(response[w].body) # ErrorTextOf(w)

\* C4: every failed probe, whatever the class of its error, is answered with
\* status 200; two failed probes whose errors differ only in class get the
\* same response; and the process is still serving afterwards.
C4_FailuresCaught ==
    /\ \A w \in Workers :
        (Responded(w) /\ Failed(w)) =>
            /\ response[w].status = 200
            /\ mainPc = "serving"
            /\ listen = [host |-> "0.0.0.0", port |-> 80]
    /\ \A w, q \in Workers :
        (/\ Responded(w) /\ Failed(w)
         /\ Responded(q) /\ Failed(q)
         /\ ErrorTextOf(w) = ErrorTextOf(q)) => response[w] = response[q]

C4_Witness ==
    \E w, q \in Workers :
        /\ Responded(w) /\ Failed(w)
        /\ Responded(q) /\ Failed(q)
        /\ outcome[w].e.cls = "ProgrammingError"
        /\ outcome[q].e.cls = "OperationalError"
        /\ ErrorTextOf(w) = ErrorTextOf(q)
        /\ response[w] = response[q]
        /\ mainPc = "serving"

\* C5: every request starts from a clean slate and its response is the one
\* its own connection attempt determines: a request at the start of the try
\* block holds no local, no connection, no logged call and no response, and
\* a responded request made exactly one connection of its own, kept nothing
\* in its frame, and carries the response of its own outcome.
C5_RequestsIndependent ==
    \A w \in Workers :
        /\ pc[w] \in {"idle", "L17"} =>
              /\ locals[w] = NoLocals
              /\ netlog[w] = <<>>
              /\ outcome[w] = NoOutcome
              /\ response[w] = NoResponse
        /\ Responded(w) =>
              /\ response[w] = AloneResponse(outcome[w])
              /\ Len(netlog[w]) = 1
              /\ locals[w] = NoLocals

\* A later request has responded after an earlier one was completed and
\* delivered.
C5_Witness ==
    \E w \in Workers :
        /\ served >= 2
        /\ Responded(w)
        /\ \A q \in Workers \ {w} : pc[q] = "idle"

\* C6: the host of the target is the value RDS_HOST had in the environment
\* at import, or the literal default when it was unset; the other
\* parameters are the literals of the source; every connection attempt uses
\* that target, whatever the environment has become since.
C6_TargetFixed ==
    /\ RDS_HOST = StartHost
    /\ \A w \in Workers :
        \A i \in DOMAIN netlog[w] :
            /\ netlog[w][i].args.host = StartHost
            /\ netlog[w][i].args.port = 3306
            /\ netlog[w][i].args.user = "admin"
            /\ netlog[w][i].args.password = "MyDBPass123!"

C6_Witness ==
    /\ "RDS_HOST" \in DOMAIN startEnv
    /\ environ # startEnv
    /\ served = 1
    /\ staleProbe
    /\ \E w \in Workers :
        /\ netlog[w] # <<>>
        /\ netlog[w][1].args.host = startEnv["RDS_HOST"]

\* C7: while several requests are in flight, each keeps its own exception
\* or connection and each response is the one the request would produce
\* alone with the same outcome.
C7_NoInterference ==
    \A w, q \in Workers :
        (w # q /\ pc[w] # "idle" /\ pc[q] # "idle") =>
            /\ pc[w] = "L23" => (Succeeded(w) /\ locals[w].tag = "conn")
            /\ pc[w] = "L25" =>
                  (Failed(w) /\ locals[w] = [tag |-> "exc", e |-> outcome[w].e])
            /\ Responded(w) => response[w] = AloneResponse(outcome[w])

C7_Witness ==
    \E w, q \in Workers :
        /\ w # q
        /\ Responded(w) /\ Succeeded(w)
        /\ Responded(q) /\ Failed(q)
        /\ response[w] # response[q]

\* C8: a request makes exactly one connection attempt before it responds, a
\* failed attempt is not repeated, and the only database-client call of a
\* request is that connect (no query).
C8_OneAttempt ==
    \A w \in Workers :
        /\ Len(netlog[w]) <= 1
        /\ \A i \in DOMAIN netlog[w] : netlog[w][i].op = "connect"
        /\ pc[w] = "L17" => Len(netlog[w]) = 0
        /\ pc[w] \in {"L23", "L25", "responded"} => Len(netlog[w]) = 1

C8_Witness ==
    \E w \in Workers :
        /\ Responded(w) /\ Failed(w)
        /\ netlog[w] = <<[op |-> "connect", args |-> netlog[w][1].args]>>

\* C9: every connection attempt is parameterised by all five components of
\* the target: host, port, user, password and database name.
C9_FullTarget ==
    \A w \in Workers :
        \A i \in DOMAIN netlog[w] :
            /\ DOMAIN netlog[w][i].args =
                 {"host", "port", "user", "password", "database"}
            /\ netlog[w][i].args.database = "testdb"

\* C10: a response body is the success message when the attempt did not
\* raise and otherwise the failure prefix, a detail and "..."; the "..." is
\* there whatever the length of the error text, and an error text shorter
\* than 50 characters (the empty one included) is the detail in full.
C10_TwoForms ==
    \A w \in Workers :
        Responded(w) =>
            LET b == response[w].body
            IN  IF Failed(w)
                THEN /\ Len(b) >= Len(ExpectedPrefix) + 3
                     /\ SubSeq(b, 1, Len(ExpectedPrefix)) = ExpectedPrefix
                     /\ SubSeq(b, Len(b) - 2, Len(b)) = ThreeDots
                     /\ Len(ErrorTextOf(w)) < 50 => Detail(b) = ErrorTextOf(w)
                ELSE b = ExpectedSuccess

C10_Witness ==
    \E w \in Workers :
        /\ Responded(w) /\ Failed(w)
        /\ ErrorTextOf(w) = <<>>
        /\ response[w].body = ExpectedPrefix \o ThreeDots

====
